---- MODULE Spec2Model ----
(***************************************************************************)
(* Model of nucypher/types.py: the unit tags ERC20Units, NuNits, TuNits    *)
(* (typing.NewType), the aliases RitualId and PhaseNumber (= int) and the  *)
(* composite identifier PhaseId (a typing.NamedTuple with the fields       *)
(* ritual_id and phase).                                                   *)
(*                                                                         *)
(* A Python value is a record [cls, items]: cls is the name of its class,  *)
(* items the sequence of its elements (one element for an int or a bool,   *)
(* the fields for a tuple or a PhaseId, none for an exception).            *)
(***************************************************************************)
EXTENDS Integers, Sequences, FiniteSets, TLC

VARIABLES
    last,      \* the last operation applied to freshly built values: [op, args, res]
    heap,      \* the live PhaseId instances, in order of construction
    ctor,      \* for each instance of heap, the arguments it was constructed from
    done,      \* the outcome of the last operation applied to an instance of heap
    store,     \* a mapping keyed by PhaseId / tuple: entries [hash, key, value] in insertion order
    written,   \* for each pair of field values, the value last assigned under it
    got,       \* the outcome of the last lookup in store
    pc,        \* per reader: the number of reads it has performed
    obs        \* per reader: the results of its reads, in order

vars == <<last, heap, ctor, done, store, written, got, pc, obs>>

-----------------------------------------------------------------------------
(* Bounds *)

MaxInt == 2        \* integers range over -MaxInt .. MaxInt - 1
MaxDepth == 3      \* nesting depth of unit-tag calls
MaxObjs == 2       \* live PhaseId instances
MaxField == 1      \* field values of the live instances range over 0 .. MaxField
MaxKey == 2        \* field values of the mapping's keys range over -MaxKey .. -1
MaxEntries == 2    \* entries of the mapping
NumReaders == 2    \* concurrent readers

Ints == (-MaxInt)..(MaxInt - 1)
FieldInts == 0..MaxField
KeyInts == (-MaxKey)..(-1)
Readers == 1..NumReaders

-----------------------------------------------------------------------------
(* Python values *)

PyInt(n) == [cls |-> "int", items |-> <<n>>]
PyBool(b) == [cls |-> "bool", items |-> <<b>>]
PyTuple(s) == [cls |-> "tuple", items |-> s]
PyExc(name) == [cls |-> name, items |-> <<>>]

TypeError == PyExc("TypeError")
AttributeError == PyExc("AttributeError")
IndexError == PyExc("IndexError")
KeyError == PyExc("KeyError")
ValueError == PyExc("ValueError")

IsExc(v) == v.cls \in {"TypeError", "AttributeError", "IndexError", "KeyError", "ValueError"}
IsTupleLike(v) == v.cls \in {"tuple", "PhaseId"}

NoKw == [n \in {} |-> 0]

\* the object v with the identity n
WithId(v, n) == [cls |-> v.cls, items |-> v.items, id |-> n]

-----------------------------------------------------------------------------
(* types.py 3-5: the unit tags.  typing.NewType(name, tp) returns a        *)
(* callable that returns its argument unchanged.                           *)

\* variant: a tag that validates its argument
ERC20Units_Checked(x) == IF x.cls = "int" /\ x.items[1] >= 0 THEN x ELSE ValueError
ERC20Units(x) == x

NuNits(x) == x

TuNits(x) == x

UnitTags == {"ERC20Units", "NuNits", "TuNits"}

ApplyTag(tag, x) ==
    CASE tag = "ERC20Units" -> ERC20Units(x)
      [] tag = "NuNits" -> NuNits(x)
      [] tag = "TuNits" -> TuNits(x)

\* tags[1](tags[2](... tags[n](x))): the innermost call is the last element
RECURSIVE ApplyTags(_, _)
ApplyTags(tags, x) ==
    IF tags = <<>> THEN x
    ELSE ApplyTag(Head(tags), ApplyTags(Tail(tags), x))

-----------------------------------------------------------------------------
(* types.py 9-10: RitualId = int, PhaseNumber = int.  Calling either is    *)
(* calling int, which returns an int argument unchanged.                   *)

int(x) == x

\* variant: an identifier type that rejects negative values
RitualId_Unsigned(x) == IF x.items[1] < 0 THEN ValueError ELSE x
RitualId(x) == int(x)

PhaseNumber(x) == int(x)

-----------------------------------------------------------------------------
(* types.py 13-15: class PhaseId(NamedTuple) with the fields ritual_id and *)
(* phase, in this order.  NamedTuple makes PhaseId a subclass of tuple:    *)
(* __new__ binds its arguments to the fields and builds the tuple, each    *)
(* field is a read-only property reading one position, and everything else *)
(* (comparison, hashing, length, indexing, iteration, + and * ) is         *)
(* inherited from tuple.                                                   *)

Fields == <<"ritual_id", "phase">>

\* variant: the two fields read from each other's position
FieldIndex_Transposed(name) == CHOOSE i \in 1..Len(Fields) : Fields[i] # name
FieldIndex(name) == CHOOSE i \in 1..Len(Fields) : Fields[i] = name

\* PhaseId.__new__(cls, ritual_id, phase), called with the positional
\* arguments args and the keyword arguments kwargs
\* variant: a constructor that validates the range of its arguments
PhaseId_new_Validated(args, kwargs) ==
    IF \E i \in 1..Len(args) : args[i].items[1] < 0
    THEN ValueError
    ELSE [cls |-> "PhaseId",
          items |-> [i \in 1..Len(Fields) |->
                        IF i <= Len(args) THEN args[i].items[1]
                        ELSE kwargs[Fields[i]].items[1]]]
PhaseId_new(args, kwargs) ==
    IF Len(args) > Len(Fields) THEN TypeError
    ELSE IF \E i \in 1..Len(args) : Fields[i] \in DOMAIN kwargs THEN TypeError
    ELSE IF \E k \in DOMAIN kwargs : \A i \in 1..Len(Fields) : Fields[i] # k THEN TypeError
    ELSE IF \E i \in (Len(args) + 1)..Len(Fields) : Fields[i] \notin DOMAIN kwargs THEN TypeError
    ELSE [cls |-> "PhaseId",
          items |-> [i \in 1..Len(Fields) |->
                        IF i <= Len(args) THEN args[i].items[1]
                        ELSE kwargs[Fields[i]].items[1]]]

\* PhaseId(r, p) and PhaseId(ritual_id=r, phase=p) for plain integers r, p
PhaseId(r, p) == PhaseId_new(<<PyInt(r), PyInt(p)>>, NoKw)
PhaseIdKw(r, p) ==
    PhaseId_new(<<>>, [n \in {"ritual_id", "phase"} |->
                         IF n = "ritual_id" THEN PyInt(r) ELSE PyInt(p)])
PhaseIdMixed(r, p) == PhaseId_new(<<PyInt(r)>>, [n \in {"phase"} |-> PyInt(p)])

\* Every operation on an instance yields the instance as the operation
\* leaves it (obj) and the operation's result (res).
Outcome(o, r) == [obj |-> o, res |-> r]

\* obj.name
\* variant: a field read that clears the field
PhaseId_getattr_Consuming(obj, name) ==
    IF obj.cls = "PhaseId" /\ \E i \in 1..Len(Fields) : Fields[i] = name
    THEN Outcome([obj EXCEPT !.items[FieldIndex(name)] = 0],
                 PyInt(obj.items[FieldIndex(name)]))
    ELSE Outcome(obj, AttributeError)
PhaseId_getattr(obj, name) ==
    IF obj.cls = "PhaseId" /\ \E i \in 1..Len(Fields) : Fields[i] = name
    THEN Outcome(obj, PyInt(obj.items[FieldIndex(name)]))
    ELSE Outcome(obj, AttributeError)

\* obj.name = value: the fields are properties without a setter and the
\* class has empty __slots__, so every assignment raises
\* variant: fields that can be assigned
PhaseId_setattr_Mutable(obj, name, value) ==
    IF \E i \in 1..Len(Fields) : Fields[i] = name
    THEN Outcome([obj EXCEPT !.items[FieldIndex(name)] = value.items[1]], PyInt(0))
    ELSE Outcome(obj, AttributeError)
PhaseId_setattr(obj, name, value) == Outcome(obj, AttributeError)

-----------------------------------------------------------------------------
(* tuple, the base class of PhaseId *)

Min(S) == CHOOSE x \in S : \A y \in S : x <= y

IntCompare(x, y, op) ==
    CASE op = "==" -> x = y
      [] op = "!=" -> x # y
      [] op = "<"  -> x < y
      [] op = "<=" -> x <= y
      [] op = ">"  -> x > y
      [] op = ">=" -> x >= y

CompareOps == {"==", "!=", "<", "<=", ">", ">="}
OrderOps == {"<", "<=", ">", ">="}

\* the first position at which v and w differ, or one past the shorter
\* variant: the last differing position
FirstDiff_FromEnd(v, w) ==
    LET n == IF Len(v) < Len(w) THEN Len(v) ELSE Len(w)
        D == {i \in 1..n : v[i] # w[i]}
    IN  IF D = {} THEN n + 1 ELSE CHOOSE x \in D : \A y \in D : x >= y
FirstDiff(v, w) ==
    LET n == IF Len(v) < Len(w) THEN Len(v) ELSE Len(w)
        D == {i \in 1..n : v[i] # w[i]}
    IN  IF D = {} THEN n + 1 ELSE Min(D)

\* tuple.__eq__, __ne__, __lt__, __le__, __gt__, __ge__
\* variant: comparison of the items as sets
tuple_richcompare_Unordered(a, b, op) ==
    IF ~(IsTupleLike(a) /\ IsTupleLike(b)) THEN TypeError
    ELSE LET sa == {a.items[i] : i \in 1..Len(a.items)}
             sb == {b.items[i] : i \in 1..Len(b.items)}
         IN  CASE op = "==" -> PyBool(sa = sb)
               [] op = "!=" -> PyBool(sa # sb)
               [] OTHER -> TypeError
tuple_richcompare(a, b, op) ==
    IF ~(IsTupleLike(a) /\ IsTupleLike(b))
    THEN IF op = "==" THEN PyBool(FALSE)
         ELSE IF op = "!=" THEN PyBool(TRUE)
         ELSE TypeError
    ELSE LET v == a.items
             w == b.items
             i == FirstDiff(v, w)
         IN  IF i > Len(v) \/ i > Len(w)
             THEN PyBool(IntCompare(Len(v), Len(w), op))
             ELSE IF op = "==" THEN PyBool(FALSE)
             ELSE IF op = "!=" THEN PyBool(TRUE)
             ELSE PyBool(IntCompare(v[i], w[i], op))

\* a + b
tuple_concat(a, b) ==
    IF IsTupleLike(a) /\ IsTupleLike(b) THEN PyTuple(a.items \o b.items)
    ELSE TypeError

RECURSIVE Repeat(_, _)
Repeat(s, n) == IF n <= 0 THEN <<>> ELSE s \o Repeat(s, n - 1)

\* a * b
tuple_repeat(a, b) ==
    IF IsTupleLike(a) /\ b.cls = "int" THEN PyTuple(Repeat(a.items, b.items[1]))
    ELSE TypeError

\* len(a)
tuple_length(a) == PyInt(Len(a.items))

\* a[i], i counted from 0, negative i counted from the end
tuple_item(a, i) ==
    LET j == IF i < 0 THEN i + Len(a.items) ELSE i
    IN  IF j < 0 \/ j >= Len(a.items) THEN IndexError
        ELSE PyInt(a.items[j + 1])

\* tuple(iter(a))
tuple_iter(a) == PyTuple(a.items)

-----------------------------------------------------------------------------
(* hashing.  hash(int) is the integer itself, except that -1 is reserved   *)
(* and hashes to -2.  hash(tuple) mixes the hashes of the items and the    *)
(* length; CPython computes it in 64 bits, here the same steps run in 15   *)
(* bits (the multipliers are CPython's reduced modulo 2^15).               *)

HashMod == 2 ^ 15

long_hash(x) == IF x = -1 THEN -2 ELSE x

RECURSIVE Xor(_, _)
Xor(a, b) ==
    IF a = 0 THEN b
    ELSE IF b = 0 THEN a
    ELSE (((a % 2) + (b % 2)) % 2) + (2 * Xor(a \div 2, b \div 2))

Rotl(x) == ((x * 128) % HashMod) + (x \div 256)

RECURSIVE HashLanes(_, _)
HashLanes(acc, s) ==
    IF s = <<>> THEN acc
    ELSE LET lane == long_hash(Head(s)) % HashMod
             a1 == (acc + (lane * 27471)) % HashMod
             a2 == Rotl(a1)
             a3 == (a2 * 19079) % HashMod
         IN  HashLanes(a3, Tail(s))

\* variant: a hash that depends on the class
tuplehash_ByClass(a) ==
    LET acc == (HashLanes(26565, a.items) + Xor(Len(a.items), 13494)) % HashMod
    IN  PyInt(IF a.cls = "tuple" THEN acc ELSE (acc + 1) % HashMod)
tuplehash(a) ==
    LET acc == (HashLanes(26565, a.items) + Xor(Len(a.items), 13494)) % HashMod
    IN  PyInt(IF acc = HashMod - 1 THEN 19412 ELSE acc)

\* hash(obj) of an instance: tuple.__hash__, computed from the items
\* variant: object's default hash, by identity
PhaseId_hash_Identity(obj) == Outcome(obj, PyInt(obj.id))
PhaseId_hash(obj) == Outcome(obj, tuplehash(obj))

\* obj == other, obj < other, ... of an instance: tuple's comparison
PhaseId_richcompare(obj, other, op) == Outcome(obj, tuple_richcompare(obj, other, op))

hash(v) == IF v.cls = "PhaseId" THEN PhaseId_hash(v).res ELSE tuplehash(v)

-----------------------------------------------------------------------------
(* dict keyed by PhaseId / tuple: a key is found by its hash and then by   *)
(* equality; assignment under a key that is found replaces the value and   *)
(* keeps the stored key, otherwise it appends an entry.                    *)

lookdict(d, k) ==
    LET h == hash(k)
        M == {i \in 1..Len(d) :
                /\ d[i].hash = h
                /\ tuple_richcompare(d[i].key, k, "==") = PyBool(TRUE)}
    IN  IF M = {} THEN 0 ELSE Min(M)

dict_setitem(d, k, v) ==
    LET i == lookdict(d, k)
    IN  IF i = 0 THEN Append(d, [hash |-> hash(k), key |-> k, value |-> v])
        ELSE [d EXCEPT ![i].value = v]

dict_getitem(d, k) ==
    LET i == lookdict(d, k)
    IN  IF i = 0 THEN KeyError ELSE d[i].value

dict_len(d) == Len(d)

-----------------------------------------------------------------------------
(* Initial state *)

Idle == [op |-> "none"]

Init ==
    /\ last = Idle
    /\ heap = <<>>
    /\ ctor = <<>>
    /\ done = Idle
    /\ store = <<>>
    /\ written = <<>>
    /\ got = Idle
    /\ pc = [rd \in Readers |-> 0]
    /\ obs = [rd \in Readers |-> <<>>]

-----------------------------------------------------------------------------
(* Operations on freshly built values.  Every action builds its operands   *)
(* from integers, applies one operation and records the result in last.    *)

ValueRest == <<heap, ctor, done, store, written, got, pc, obs>>

PlainTuples == UNION {[1..n -> Ints] : n \in 0..(Len(Fields) + 1)}

\* PhaseId(r, p)
Construct(r, p) ==
    /\ last = Idle
    /\ last' = [op |-> "new", args |-> <<r, p>>, res |-> PhaseId(r, p)]
    /\ UNCHANGED ValueRest

\* PhaseId(ritual_id=r, phase=p)
ConstructKw(r, p) ==
    /\ last = Idle
    /\ last' = [op |-> "new_kw", args |-> <<r, p>>, res |-> PhaseIdKw(r, p)]
    /\ UNCHANGED ValueRest

\* PhaseId(r, phase=p)
ConstructMixed(r, p) ==
    /\ last = Idle
    /\ last' = [op |-> "new_mixed", args |-> <<r, p>>, res |-> PhaseIdMixed(r, p)]
    /\ UNCHANGED ValueRest

\* a: RitualId = ...; b: PhaseNumber = ...; PhaseId(PhaseNumber(a), RitualId(b))
ConstructAliased(a, b) ==
    LET x == PhaseNumber(PyInt(a))
        y == RitualId(PyInt(b))
    IN  /\ last = Idle
        /\ last' = [op |-> "new_aliased", args |-> <<a, b>>,
                    res |-> IF IsExc(x) THEN x
                            ELSE IF IsExc(y) THEN y
                            ELSE PhaseId_new(<<x, y>>, NoKw)]
        /\ UNCHANGED ValueRest

\* PhaseId(r, p).name
ReadField(r, p, name) ==
    /\ last = Idle
    /\ last' = [op |-> "getattr", args |-> <<r, p>>, name |-> name,
                res |-> PhaseId_getattr(PhaseId(r, p), name).res]
    /\ UNCHANGED ValueRest

\* PhaseId(r1, p1) op PhaseId(r2, p2) for a comparison operator
Compare(r1, p1, r2, p2, op) ==
    /\ last = Idle
    /\ last' = [op |-> "compare", args |-> <<r1, p1, r2, p2>>, cmp |-> op,
                res |-> PhaseId_richcompare(PhaseId(r1, p1), PhaseId(r2, p2), op).res]
    /\ UNCHANGED ValueRest

\* PhaseId(r1, p1) + PhaseId(r2, p2)
Add(r1, p1, r2, p2) ==
    /\ last = Idle
    /\ last' = [op |-> "add", args |-> <<r1, p1, r2, p2>>,
                res |-> tuple_concat(PhaseId(r1, p1), PhaseId(r2, p2))]
    /\ UNCHANGED ValueRest

\* PhaseId(r1, p1) * PhaseId(r2, p2)
Mul(r1, p1, r2, p2) ==
    /\ last = Idle
    /\ last' = [op |-> "mul", args |-> <<r1, p1, r2, p2>>,
                res |-> tuple_repeat(PhaseId(r1, p1), PhaseId(r2, p2))]
    /\ UNCHANGED ValueRest

\* PhaseId(r, p) * n
MulInt(r, p, n) ==
    /\ last = Idle
    /\ last' = [op |-> "mul_int", args |-> <<r, p, n>>,
                res |-> tuple_repeat(PhaseId(r, p), PyInt(n))]
    /\ UNCHANGED ValueRest

\* hash(a), hash(b) and a == b for two separately built instances
HashBoth(r1, p1, r2, p2) ==
    LET a == WithId(PhaseId(r1, p1), 1)
        b == WithId(PhaseId(r2, p2), 2)
    IN  /\ last = Idle
        /\ last' = [op |-> "hash", args |-> <<r1, p1, r2, p2>>,
                    res |-> <<PhaseId_hash(a).res, PhaseId_hash(b).res>>,
                    eq |-> PhaseId_richcompare(a, b, "==").res]
        /\ UNCHANGED ValueRest

\* tags[1](tags[2](...(x)))
TagUnits(x, tags) ==
    /\ last = Idle
    /\ last' = [op |-> "tag", args |-> <<x>>, tags |-> tags,
                res |-> ApplyTags(tags, PyInt(x))]
    /\ UNCHANGED ValueRest

\* PhaseId(r, p)[i]
Index(r, p, i) ==
    /\ last = Idle
    /\ last' = [op |-> "index", args |-> <<r, p, i>>,
                res |-> tuple_item(PhaseId(r, p), i)]
    /\ UNCHANGED ValueRest

\* PhaseId(r, p) seen as a tuple, next to the plain tuple t
TupleView(r, p, t) ==
    LET a == WithId(PhaseId(r, p), 1)
        b == WithId(PyTuple(t), 2)
        d == dict_setitem(<<>>, a, PyInt(1))
    IN  /\ last = Idle
        /\ last' = [op |-> "tupleview", args |-> <<r, p>>, other |-> t,
                    eq |-> tuple_richcompare(a, b, "=="),
                    eqrev |-> tuple_richcompare(b, a, "=="),
                    hashes |-> <<hash(a), hash(b)>>,
                    len |-> tuple_length(a),
                    first |-> tuple_item(a, 0),
                    second |-> tuple_item(a, 1),
                    iter |-> tuple_iter(a),
                    lookup |-> dict_getitem(d, b),
                    entries |-> dict_len(dict_setitem(d, b, PyInt(2)))]
        /\ UNCHANGED ValueRest

\* the caller takes the result; the next operation starts from fresh values
Return ==
    /\ last # Idle
    /\ last' = Idle
    /\ UNCHANGED ValueRest

TagSeqs == UNION {[1..n -> UnitTags] : n \in 1..MaxDepth}

Next ==
    \/ \E r, p \in Ints : Construct(r, p)
    \/ \E r, p \in Ints : ConstructKw(r, p)
    \/ \E r, p \in Ints : ConstructMixed(r, p)
    \/ \E a, b \in Ints : ConstructAliased(a, b)
    \/ \E r, p \in Ints : \E name \in {"ritual_id", "phase"} : ReadField(r, p, name)
    \/ \E r1, p1, r2, p2 \in Ints : \E op \in CompareOps : Compare(r1, p1, r2, p2, op)
    \/ \E r1, p1, r2, p2 \in Ints : Add(r1, p1, r2, p2)
    \/ \E r1, p1, r2, p2 \in Ints : Mul(r1, p1, r2, p2)
    \/ \E r, p, n \in Ints : MulInt(r, p, n)
    \/ \E r1, p1, r2, p2 \in Ints : HashBoth(r1, p1, r2, p2)
    \/ \E x \in Ints : \E tags \in TagSeqs : TagUnits(x, tags)
    \/ \E r, p \in Ints : \E i \in (-Len(Fields) - 1)..Len(Fields) : Index(r, p, i)
    \/ \E r, p \in Ints : \E t \in PlainTuples : TupleView(r, p, t)
    \/ Return

Spec == Init /\ [][Next]_vars

-----------------------------------------------------------------------------
(* Properties of the operations on freshly built values (checked under     *)
(* Spec).  In each, last.args are the integers the operands were built     *)
(* from.                                                                   *)

\* C1: PhaseId(r1, p1) == PhaseId(r2, p2) is true exactly when r1 = r2 and
\* p1 = p2; equality is field-wise and order-sensitive.
C1_EqualityFieldwise ==
    (last.op = "compare" /\ last.cmp = "==") =>
        last.res = PyBool(last.args[1] = last.args[3] /\ last.args[2] = last.args[4])

\* C1 witness: PhaseId(r, p) was compared with PhaseId(p, r) for r # p and
\* found different.
C1_Witness ==
    /\ last.op = "compare"
    /\ last.cmp = "=="
    /\ last.args[1] # last.args[2]
    /\ last.args[3] = last.args[2]
    /\ last.args[4] = last.args[1]
    /\ last.res = PyBool(FALSE)

\* C2: PhaseId(r, p).ritual_id is r and PhaseId(r, p).phase is p, and
\* PhaseId(ritual_id=r, phase=p) is the value PhaseId(r, p): a PhaseId whose
\* first item is r and whose second item is p.
C2_FieldsInOrder ==
    /\ last.op = "getattr" =>
        last.res = PyInt(IF last.name = "ritual_id" THEN last.args[1] ELSE last.args[2])
    /\ last.op = "new_kw" =>
        /\ last.res.cls = "PhaseId"
        /\ last.res.items = last.args
        /\ tuple_richcompare(last.res, PhaseId(last.args[1], last.args[2]), "==")
               = PyBool(TRUE)
        /\ PhaseId_getattr(last.res, "ritual_id").res = PyInt(last.args[1])
        /\ PhaseId_getattr(last.res, "phase").res = PyInt(last.args[2])

\* C2 witness: the phase of a PhaseId with different fields was read.
C2_Witness ==
    /\ last.op = "getattr"
    /\ last.name = "phase"
    /\ last.args[1] # last.args[2]
    /\ last.res = PyInt(last.args[2])

\* C5 as stated: <, <=, >, >=, + and * applied to two PhaseId values are not
\* supported operations: none of them yields a result.
C5_NoOrderingNoArithmetic ==
    ((last.op = "compare" /\ last.cmp \in OrderOps) \/ last.op \in {"add", "mul"})
        => IsExc(last.res)

Lexicographic(r1, p1, r2, p2, op) ==
    IF r1 # r2 THEN IntCompare(r1, r2, op) ELSE IntCompare(p1, p2, op)

\* C5 amended: PhaseId inherits tuple's operations.  <, <=, >, >= on two
\* PhaseId values yield the lexicographic order of (ritual_id, phase); + on
\* two PhaseId values yields the plain tuple of the four fields; * by an
\* integer n yields a plain tuple of n copies of the two fields; only * of
\* two PhaseId values is unsupported and raises TypeError.
C5_InheritedTupleOperations ==
    /\ (last.op = "compare" /\ last.cmp \in OrderOps) =>
        last.res = PyBool(Lexicographic(last.args[1], last.args[2],
                                        last.args[3], last.args[4], last.cmp))
    /\ last.op = "add" => last.res = PyTuple(last.args)
    /\ last.op = "mul" => last.res = TypeError
    /\ last.op = "mul_int" =>
        /\ last.res.cls = "tuple"
        /\ Len(last.res.items) = (IF last.args[3] > 0 THEN 2 * last.args[3] ELSE 0)
        /\ \A i \in 1..Len(last.res.items) :
              last.res.items[i] = last.args[IF i % 2 = 1 THEN 1 ELSE 2]

\* C5 witness: two PhaseId values with the same ritual_id were compared with
\* < and the one with the smaller phase was found smaller.
C5_Witness ==
    /\ last.op = "compare"
    /\ last.cmp = "<"
    /\ last.args[1] = last.args[3]
    /\ last.args[2] < last.args[4]
    /\ last.res = PyBool(TRUE)

\* C6: constructing a PhaseId from any two integers, negative and zero
\* included, never fails and yields a PhaseId holding exactly those two.
C6_ConstructionNeverFails ==
    last.op \in {"new", "new_kw", "new_mixed"} =>
        /\ ~IsExc(last.res)
        /\ last.res.cls = "PhaseId"
        /\ last.res.items = last.args

\* C6 witness: a PhaseId was constructed from a negative ritual id and zero.
C6_Witness ==
    /\ last.op = "new"
    /\ last.args[1] < 0
    /\ last.args[2] = 0
    /\ last.res.cls = "PhaseId"

\* C7: ERC20Units, NuNits and TuNits, nested in any order and depth, return
\* the integer they are given, as a plain int, and never fail.
C7_UnitTagsAreIdentity ==
    last.op = "tag" =>
        /\ ~IsExc(last.res)
        /\ last.res = PyInt(last.args[1])

\* C7 witness: TuNits(NuNits(ERC20Units(x))) was evaluated for a negative x.
C7_Witness ==
    /\ last.op = "tag"
    /\ last.tags = <<"TuNits", "NuNits", "ERC20Units">>
    /\ last.args[1] < 0
    /\ last.res.cls = "int"

\* C8: a PhaseId built from a PhaseNumber in the ritual_id position and a
\* RitualId in the phase position is accepted and equals the PhaseId built
\* from the same two raw integers.
C8_AliasesInterchangeable ==
    last.op = "new_aliased" =>
        /\ ~IsExc(last.res)
        /\ tuple_richcompare(last.res, PhaseId(last.args[1], last.args[2]), "==")
               = PyBool(TRUE)
        /\ last.res.items = last.args

\* C8 witness: such a PhaseId was built from two different integers, the
\* second negative.
C8_Witness ==
    /\ last.op = "new_aliased"
    /\ last.args[1] # last.args[2]
    /\ last.args[2] < 0
    /\ last.res.cls = "PhaseId"

\* C10: PhaseId(r, p) equals the plain tuple (r, p) and no other plain tuple
\* (none of another length in particular), has the same hash as (r, p), has
\* length 2 and yields r then p when indexed or iterated; in a mapping, the
\* PhaseId and the plain tuple (r, p) address the same entry.
C10_IsATuple ==
    last.op = "tupleview" =>
        /\ last.eq = PyBool(last.other = last.args)
        /\ last.eqrev = last.eq
        /\ Len(last.other) # 2 => last.eq = PyBool(FALSE)
        /\ last.other = last.args =>
            /\ last.hashes[1] = last.hashes[2]
            /\ last.lookup = PyInt(1)
            /\ last.entries = 1
        /\ last.other # last.args =>
            /\ last.lookup = KeyError
            /\ last.entries = 2
        /\ last.len = PyInt(2)
        /\ last.first = PyInt(last.args[1])
        /\ last.second = PyInt(last.args[2])
        /\ last.iter = PyTuple(last.args)

\* C10 witness: a PhaseId with different fields was looked at next to the
\* plain tuple of the same two integers, and a lookup by the tuple found the
\* value stored under the PhaseId.
C10_Witness ==
    /\ last.op = "tupleview"
    /\ last.other = last.args
    /\ last.args[1] # last.args[2]
    /\ last.lookup = PyInt(1)

-----------------------------------------------------------------------------
(* Live instances.  heap holds the PhaseId instances constructed so far;   *)
(* every operation is applied to an instance in place: the instance is     *)
(* replaced by what the operation leaves of it.                            *)

InstRest == <<last, written, got, pc, obs>>

\* x = PhaseId(r, p)
New(r, p) ==
    /\ done = Idle
    /\ Len(heap) < MaxObjs
    /\ heap' = Append(heap, WithId(PhaseId(r, p), Len(heap) + 1))
    /\ ctor' = Append(ctor, <<r, p>>)
    /\ done' = [op |-> "new", i |-> Len(heap) + 1]
    /\ UNCHANGED <<store, InstRest>>

\* x.name
GetAttr(i, name) ==
    LET o == PhaseId_getattr(heap[i], name)
    IN  /\ done = Idle
        /\ heap' = [heap EXCEPT ![i] = o.obj]
        /\ done' = [op |-> "getattr", i |-> i, name |-> name, res |-> o.res]
        /\ UNCHANGED <<ctor, store, InstRest>>

\* x == y
Equals(i, j) ==
    LET o == PhaseId_richcompare(heap[i], heap[j], "==")
    IN  /\ done = Idle
        /\ heap' = [heap EXCEPT ![i] = o.obj]
        /\ done' = [op |-> "eq", i |-> i, j |-> j, res |-> o.res]
        /\ UNCHANGED <<ctor, store, InstRest>>

\* hash(x)
HashOf(i) ==
    LET o == PhaseId_hash(heap[i])
    IN  /\ done = Idle
        /\ heap' = [heap EXCEPT ![i] = o.obj]
        /\ done' = [op |-> "hash", i |-> i, res |-> o.res]
        /\ UNCHANGED <<ctor, store, InstRest>>

\* x.name = v
SetAttr(i, name, v) ==
    LET o == PhaseId_setattr(heap[i], name, PyInt(v))
    IN  /\ done = Idle
        /\ heap' = [heap EXCEPT ![i] = o.obj]
        /\ done' = [op |-> "setattr", i |-> i, name |-> name, value |-> v, res |-> o.res]
        /\ UNCHANGED <<ctor, store, InstRest>>

\* d[x] = i
UseAsKey(i) ==
    /\ done = Idle
    /\ lookdict(store, heap[i]) # 0 \/ dict_len(store) < MaxEntries
    /\ store' = dict_setitem(store, heap[i], PyInt(i))
    /\ done' = [op |-> "setitem", i |-> i, res |-> PyInt(dict_len(store'))]
    /\ UNCHANGED <<heap, ctor, InstRest>>

\* d[x]
LookUpBy(i) ==
    /\ done = Idle
    /\ done' = [op |-> "getitem", i |-> i, res |-> dict_getitem(store, heap[i])]
    /\ UNCHANGED <<heap, ctor, store, InstRest>>

\* the caller takes the result of the operation
ReturnInst ==
    /\ done # Idle
    /\ done' = Idle
    /\ UNCHANGED <<heap, ctor, store, InstRest>>

NextInst ==
    \/ \E r, p \in FieldInts : New(r, p)
    \/ \E i \in 1..Len(heap) : \E name \in {"ritual_id", "phase"} : GetAttr(i, name)
    \/ \E i, j \in 1..Len(heap) : Equals(i, j)
    \/ \E i \in 1..Len(heap) : HashOf(i)
    \/ \E i \in 1..Len(heap) : \E name \in {"ritual_id", "phase"} :
          \E v \in FieldInts : SetAttr(i, name, v)
    \/ \E i \in 1..Len(heap) : UseAsKey(i)
    \/ \E i \in 1..Len(heap) : LookUpBy(i)
    \/ ReturnInst

SpecInst == Init /\ [][NextInst]_vars

\* C4: after any sequence of field reads, comparisons, hashing, uses as a
\* mapping key and attempted field assignments, every instance still holds
\* the values it was constructed from, and an attempted field assignment
\* ends in an error.
C4_Immutable ==
    /\ Len(heap) = Len(ctor)
    /\ \A i \in 1..Len(heap) :
          /\ heap[i].cls = "PhaseId"
          /\ heap[i].items = ctor[i]
          /\ PhaseId_getattr(heap[i], "ritual_id").res = PyInt(ctor[i][1])
          /\ PhaseId_getattr(heap[i], "phase").res = PyInt(ctor[i][2])
    /\ done.op = "setattr" => done.res = AttributeError

\* C4 witness: an instance that had been used as a mapping key was the
\* target of an assignment of a value other than the field's, which failed.
C4_Witness ==
    /\ done.op = "setattr"
    /\ done.value # ctor[done.i][FieldIndex(done.name)]
    /\ done.res = AttributeError
    /\ lookdict(store, heap[done.i]) # 0

-----------------------------------------------------------------------------
(* A mapping keyed by PhaseId.  Every assignment and every lookup builds   *)
(* its key anew: a stored key has the identity of its entry, a lookup key  *)
(* the identity 0.  written is the mapping as a function of the key's      *)
(* field values.                                                           *)

Values == {PyInt(1), PyInt(2)}

DictRest == <<last, heap, ctor, done, pc, obs>>

\* d[PhaseId(r, p)] = v
DictSet(r, p, v) ==
    LET k == WithId(PhaseId(r, p), dict_len(store) + 1)
    IN  /\ got = Idle
        /\ lookdict(store, k) # 0 \/ dict_len(store) < MaxEntries
        /\ store' = dict_setitem(store, k, v)
        /\ written' = [x \in DOMAIN written \cup {<<r, p>>} |->
                          IF x = <<r, p>> THEN v ELSE written[x]]
        /\ got' = [op |-> "set", key |-> <<r, p>>,
                   replaced |-> (dict_len(store') = dict_len(store))]
        /\ UNCHANGED DictRest

\* d[PhaseId(r, p)]
DictGet(r, p) ==
    LET k == WithId(PhaseId(r, p), 0)
    IN  /\ got = Idle
        /\ got' = [op |-> "get", key |-> <<r, p>>, res |-> dict_getitem(store, k)]
        /\ UNCHANGED <<store, written, DictRest>>

\* the caller takes the result of the assignment or lookup
ReturnDict ==
    /\ got # Idle
    /\ got' = Idle
    /\ UNCHANGED <<store, written, DictRest>>

NextDict ==
    \/ \E r, p \in KeyInts : \E v \in Values : DictSet(r, p, v)
    \/ \E r, p \in KeyInts : DictGet(r, p)
    \/ ReturnDict

SpecDict == Init /\ [][NextDict]_vars

\* C3: every PhaseId is hashable and a PhaseId equal to a stored key has the
\* stored key's hash; a lookup with a separately built PhaseId returns the
\* value last assigned under an equal key (and fails when there is none),
\* and an assignment under an equal key replaces the value instead of
\* adding an entry.
C3_HashConsistentWithEquality ==
    /\ \A r, p \in KeyInts :
          LET k == WithId(PhaseId(r, p), 0)
          IN  /\ hash(k).cls = "int"
              /\ \A n \in 1..Len(store) :
                    tuple_richcompare(store[n].key, k, "==") = PyBool(TRUE) =>
                        /\ hash(store[n].key) = hash(k)
                        /\ store[n].hash = hash(k)
              /\ dict_getitem(store, k) =
                    (IF <<r, p>> \in DOMAIN written THEN written[<<r, p>>] ELSE KeyError)
    /\ dict_len(store) = Cardinality(DOMAIN written)
    /\ got.op = "get" =>
          got.res = (IF got.key \in DOMAIN written THEN written[got.key] ELSE KeyError)

\* C3 witness: the mapping holds two keys with the same hash, an assignment
\* has replaced a value, and a lookup with a newly built PhaseId returned it.
C3_Witness ==
    /\ got.op = "get"
    /\ got.res = PyInt(2)
    /\ dict_len(store) = 2
    /\ store[1].hash = store[2].hash
    /\ got.key = store[1].key.items
    /\ store[1].value = PyInt(2)
    /\ store[2].value = PyInt(1)

-----------------------------------------------------------------------------
(* Concurrent readers.  Two PhaseId instances are shared; every reader     *)
(* reads a field of each, hashes one and compares the two, one operation   *)
(* per step, interleaved with the steps of the other readers in any order. *)
(* Reader rd starts from instance Mine(rd).                                *)

Mine(rd) == 1 + (rd % 2)
Other(rd) == 3 - Mine(rd)

InitReaders ==
    /\ \E a, b, c, d \in FieldInts :
          /\ heap = <<WithId(PhaseId(a, b), 1), WithId(PhaseId(c, d), 2)>>
          /\ ctor = <<(<<a, b>>), (<<c, d>>)>>
    /\ last = Idle
    /\ done = Idle
    /\ store = <<>>
    /\ written = <<>>
    /\ got = Idle
    /\ pc = [rd \in Readers |-> 0]
    /\ obs = [rd \in Readers |-> <<>>]

ReaderRest == <<last, ctor, done, store, written, got>>

\* the step of reader rd that applies an operation with outcome o to instance i
Observe(rd, i, o) ==
    /\ heap' = [heap EXCEPT ![i] = o.obj]
    /\ obs' = [obs EXCEPT ![rd] = Append(@, o.res)]
    /\ pc' = [pc EXCEPT ![rd] = @ + 1]
    /\ UNCHANGED ReaderRest

ReadRitual(rd) ==
    /\ pc[rd] = 0
    /\ Observe(rd, Mine(rd), PhaseId_getattr(heap[Mine(rd)], "ritual_id"))

ReadPhase(rd) ==
    /\ pc[rd] = 1
    /\ Observe(rd, Other(rd), PhaseId_getattr(heap[Other(rd)], "phase"))

ReadHash(rd) ==
    /\ pc[rd] = 2
    /\ Observe(rd, Mine(rd), PhaseId_hash(heap[Mine(rd)]))

ReadEquals(rd) ==
    /\ pc[rd] = 3
    /\ Observe(rd, Mine(rd), PhaseId_richcompare(heap[Mine(rd)], heap[Other(rd)], "=="))

NextReaders ==
    \E rd \in Readers :
        \/ ReadRitual(rd)
        \/ ReadPhase(rd)
        \/ ReadHash(rd)
        \/ ReadEquals(rd)

SpecReaders == InitReaders /\ [][NextReaders]_vars

\* the shared instances as they were constructed
Shared == [i \in 1..Len(ctor) |-> WithId(PhaseId(ctor[i][1], ctor[i][2]), i)]

\* the results reader rd obtains when it runs alone, from the instances as
\* they were constructed
Alone(rd) ==
    LET h0 == Shared
        o1 == PhaseId_getattr(h0[Mine(rd)], "ritual_id")
        h1 == [h0 EXCEPT ![Mine(rd)] = o1.obj]
        o2 == PhaseId_getattr(h1[Other(rd)], "phase")
        h2 == [h1 EXCEPT ![Other(rd)] = o2.obj]
        o3 == PhaseId_hash(h2[Mine(rd)])
        h3 == [h2 EXCEPT ![Mine(rd)] = o3.obj]
        o4 == PhaseId_richcompare(h3[Mine(rd)], h3[Other(rd)], "==")
    IN  <<o1.res, o2.res, o3.res, o4.res>>

\* C9: under every interleaving, each reader's field reads, hash and
\* comparison give what they give when the reader runs alone, and no step
\* changes the instances the other readers observe.
C9_ReadersIndependent ==
    /\ heap = Shared
    /\ \A rd \in Readers :
          /\ Len(obs[rd]) = pc[rd]
          /\ obs[rd] = SubSeq(Alone(rd), 1, pc[rd])
          /\ pc[rd] >= 1 => obs[rd][1] = PyInt(ctor[Mine(rd)][1])
          /\ pc[rd] >= 2 => obs[rd][2] = PyInt(ctor[Other(rd)][2])
          /\ pc[rd] >= 4 => obs[rd][4] = PyBool(ctor[1] = ctor[2])

\* C9 witness: all readers have finished, over two different instances with
\* non-zero fields, and two readers that started from different instances
\* got the same comparison result.
C9_Witness ==
    /\ \A rd \in Readers : pc[rd] = 4
    /\ ctor[1] # ctor[2]
    /\ ctor[1][1] # 0
    /\ ctor[2][2] # 0
    /\ \E r1, r2 \in Readers : Mine(r1) # Mine(r2) /\ obs[r1][4] = obs[r2][4]

====
